---------------------------- MODULE Spec2Model ----------------------------
(***************************************************************************)
(* Model of kcuzner/python-tetris: events.py (EventDispatcher,             *)
(* EventedObject), game.py (Movable, Polyomino, PolyominoFactory, Grid,    *)
(* MasterTetris).                                                          *)
(*                                                                         *)
(* Reading of the source used throughout: game.py reaches the dispatcher   *)
(* of an entity as `self.event`, events.py creates it as                   *)
(* `self.changed_event`.  The model takes both names to denote the one     *)
(* dispatcher every EventedObject owns.                                    *)
(***************************************************************************)
EXTENDS Integers, Sequences, FiniteSets, TLC

(***************************************************************************)
(* Bounds of the model.                                                    *)
(***************************************************************************)
\* width and height of the grid of the game specification
GameWidth == 3
GameHeight == 2
\* number of pieces a game spawns before the model stops spawning
MaxPieces == 3
\* width and height of the grid whose rows SpecRows clears
RowsWidth == 3
RowsHeight == 3
\* width and height of the grid SpecPiece moves a piece on
PieceWidth == 2
PieceHeight == 2
\* number of positioned entities of SpecChain
NumEntities == 3
\* nesting depth of suppression scopes and number of events invoked in
\* SpecDispatcher
MaxScopes == 3
MaxEvents == 4
\* length of the list of handlers SpecInvoke starts with
MaxHandlers == 3
\* number of State objects SpecManager makes
MaxStates == 3

\* number of State objects SpecStates makes
MaxObjects == 5

\* number of pieces of a game of SpecStates
MaxGamePieces == 1
\* most rows cleared before SpecLevel starts
MaxLines == 10
\* number of operations of a behaviour of SpecBubble
MaxSets == 2

VARIABLES
    width,          \* Grid.width
    height,         \* Grid.height
    grid,           \* Grid.grid : grid[x][y] is None or <<block>>
    current_piece,  \* MasterTetris.__current_piece : None or <<piece>>
    score,          \* MasterTetris.__score
    lines,          \* MasterTetris.__lines
    level,          \* MasterTetris.__level
    delta,          \* MasterTetris.delta, in microseconds
    pieces,         \* number of PolyominoFactory calls made so far
    op,             \* the operation that produced this state
    result,         \* what that operation returned ("True", "False"; "list"
                    \* for the list kept in removed) or raised ("IndexError")
    events,         \* the events that operation invoked on unsuppressed dispatchers
    prev,           \* the piece as it was before that operation
    removed,        \* the list the last call of clear_rows returned
    hist            \* SpecPiece: None, or <<the accepted rotation that came
                    \* before the last operation, and the piece before it>>;
                    \* SpecAdd: None, or <<the parent of every block of the
                    \* piece after add_polyomino>>

gameVars == <<width, height, grid, current_piece, score, lines, level, delta,
              pieces, result, events, prev, removed, hist>>

VARIABLES
    elocal,         \* Movable.__local_position of every entity
    eparent,        \* EventedObject.__parent of every entity
    esub,           \* for every entity, the object on whose dispatcher its
                    \* __on_parent_event is subscribed, 0 when on none
    esup,           \* the __supress_count of the dispatcher of every entity
    heard,          \* the deliveries the last setter caused, in order: the
                    \* dispatcher that called its handlers, and the event
    sets            \* SpecBubble: number of operations made so far

chainVars == <<elocal, eparent, esub, esup, heard, sets>>

VARIABLES
    supress_count,  \* EventDispatcher.__supress_count
    handlers,       \* EventDispatcher.__handlers
    scopes,         \* number of `with` blocks on the dispatcher that are open
    invoked,        \* number of events the dispatcher was called with
    delivered,      \* the calls of handlers made so far: <<handler, event>>
    depths          \* for every event invoked, the number of scopes open then

dispVars == <<supress_count, handlers, scopes, invoked, delivered, depths>>

VARIABLES
    states,         \* StateManager.__states, the top of the stack last
    trace,          \* what the last operation of the manager did, in order:
                    \* the calls of init, enter, exit of a state, pop and append
                    \* on the list, the call of the dispatcher `empty`
    arg,            \* the state that operation was called with, or None
    created,        \* number of State objects made so far
    data,           \* StateManager.__data: None while it has no "block_types",
                    \* else <<the number of block types>>
    raised,         \* whether that operation ended by raising an exception
    entered,        \* the states whose last call of enter() or exit() was enter()
    worker,         \* LoadState.loading_thread of the state of every serial
                    \* number: "none", "alive" (started), "stored" (alive, after
                    \* it stored the block types) or "dead"
    joining,        \* whether the frame loop is inside loading_thread.join()
    selected,       \* the field `selected` of the menu state of every serial
                    \* number that is on the stack, 0 for every other
    key             \* the character of the last input, 0 before any and after
                    \* a render

managerVars == <<states, trace, arg, created, data, raised, entered, worker,
                 joining, selected, key>>

vars == <<op, gameVars, chainVars, dispVars, managerVars>>

\* the entities of SpecChain before any assignment: no parent, offset (0, 0)
ChainIdle ==
    /\ elocal = [e \in 1..NumEntities |-> <<0, 0>>]
    /\ eparent = [e \in 1..NumEntities |-> 0]
    /\ esub = [e \in 1..NumEntities |-> 0]
    /\ esup = [e \in 1..NumEntities |-> 0]
    /\ heard = <<>>
    /\ sets = 0

\* no StateManager
ManagerIdle ==
    /\ states = <<>>
    /\ trace = <<>>
    /\ arg = <<>>
    /\ created = 0
    /\ data = <<>>
    /\ raised = FALSE
    /\ entered = {}
    /\ worker = [s \in 1..MaxObjects |-> "none"]
    /\ joining = FALSE
    /\ selected = [s \in 1..MaxObjects |-> 0]
    /\ key = 0

\* EventDispatcher.__init__, with two handlers subscribed
DispatcherIdle ==
    /\ supress_count = 0
    /\ handlers = <<"h1", "h2">>
    /\ scopes = 0
    /\ invoked = 0
    /\ delivered = <<>>
    /\ depths = <<>>

(***************************************************************************)
(* Values.                                                                 *)
(***************************************************************************)
\* Python's None, for a grid cell and for current_piece
None == <<>>

\* an Event: its target and its name
Ev(src, name) == [src |-> src, name |-> name]

\* an __exit__ that forgets the counter
DispatcherExitKeep(c) == c

\* EventDispatcher.__enter__ and __exit__, on the counter
DispatcherEnter(c) == c + 1
DispatcherExit(c) == c - 1

\* EventDispatcher.__call__ for each of the events evs in turn, the counter
\* being c: the events that reach the handlers
Reported(c, evs) == IF c > 0 THEN <<>> ELSE evs

GameSrc == <<"game", 0, 0>>
GridSrc == <<"grid", 0, 0>>
PieceSrc(p) == <<"piece", p.ser, 0>>
BlockSrc(id) == <<"block", id[1], id[2]>>

\* Grid(position, parent=self) of Tetris((35, 1), blocks)
GridLocal == <<35, 1>>

\* the piece templates of a game: the tuples of its PolyominoFactory objects
Templates ==
    << << <<0, 0>>, <<1, 0>> >>,
       << <<0, 0>>, <<0, -1>>, <<1, -1>> >>,
       << <<0, -1>>, <<0, -2>>, <<1, -2>> >> >>

\* PolyominoFactory.__call__ : a piece whose parent is the grid, with one
\* block per tuple; ser numbers the piece, block i of it is <<ser, i>>
NewPolyomino(tuples, position, ser) ==
    [lp |-> position, blocks |-> tuples, parent |-> "grid", ser |-> ser]

EmptyGrid(w, h) == [x \in 0..(w - 1) |-> [y \in 0..(h - 1) |-> None]]

\* Movable.__translate_position
TranslatePosition(lp, origin) == <<origin[1] + lp[1], origin[2] + lp[2]>>

\* an is_clear without the test for the rows above the grid: a negative
\* row indexes the column from its end
IsClearNoCeiling(g, w, h, pos) ==
    LET x == pos[1]
        y == pos[2]
    IN  IF x < 0 \/ x >= w \/ y >= h \/ y < -h THEN FALSE
        ELSE g[x][IF y < 0 THEN h + y ELSE y] = None

(***************************************************************************)
(* Grid.is_clear                                                           *)
(***************************************************************************)
IsClear(g, w, h, pos) ==
    LET x == pos[1]
        y == pos[2]
    IN  IF y < 0 THEN TRUE
        ELSE IF x < 0 \/ x >= w \/ y >= h THEN FALSE
        ELSE g[x][y] = None

\* a check that returns after the first location
CheckFirstLocation(p, locations, g, w, h) ==
    IF p.parent # "grid" \/ locations = <<>> THEN TRUE
    ELSE IsClear(g, w, h, <<p.lp[1] + locations[1][1], p.lp[2] + locations[1][2]>>)

\* a check that looks at the bounds of the grid and not at its blocks
CheckLocationsEmpty(p, locations, g, w, h) ==
    IF p.parent # "grid" THEN TRUE
    ELSE \A i \in DOMAIN locations :
            IsClear(EmptyGrid(w, h), w, h,
                    <<p.lp[1] + locations[i][1], p.lp[2] + locations[i][2]>>)

(***************************************************************************)
(* Polyomino.__check_locations                                             *)
(***************************************************************************)
CheckLocations(p, locations, g, w, h) ==
    IF p.parent # "grid" THEN TRUE
    ELSE \A i \in DOMAIN locations :
            IsClear(g, w, h, <<p.lp[1] + locations[i][1], p.lp[2] + locations[i][2]>>)

\* the position-changed events of the blocks of p, in block order
BlockMoved(p) == [i \in DOMAIN p.blocks |-> Ev(BlockSrc(<<p.ser, i>>), "position-changed")]

\* new_local_positions of rotate_left, rotate_right and move_delta
LeftLocations(p) == [i \in DOMAIN p.blocks |-> <<-(p.blocks[i][2]), p.blocks[i][1]>>]
\* a right rotation with the sign of x lost
RightLocationsUnsigned(p) == [i \in DOMAIN p.blocks |-> <<p.blocks[i][2], p.blocks[i][1]>>]
RightLocations(p) == [i \in DOMAIN p.blocks |-> <<p.blocks[i][2], -(p.blocks[i][1])>>]
DeltaLocations(p, d) == [i \in DOMAIN p.blocks |-> <<p.blocks[i][1] + d[1], p.blocks[i][2] + d[2]>>]

\* the commit loop of a rotation: every block takes its new local position
\* and reports it, then the piece reports "rotated"
CommitRotation(p, locations) ==
    [ok |-> TRUE,
     piece |-> [p EXCEPT !.blocks = locations],
     events |-> BlockMoved(p) \o <<Ev(PieceSrc(p), "rotated")>>]

Rejected(p) == [ok |-> FALSE, piece |-> p, events |-> <<>>]

(***************************************************************************)
(* Polyomino.rotate_left, rotate_right, move_delta                         *)
(***************************************************************************)
PolyRotateLeft(p, g, w, h) ==
    IF ~CheckLocations(p, LeftLocations(p), g, w, h) THEN Rejected(p)
    ELSE CommitRotation(p, LeftLocations(p))

PolyRotateRight(p, g, w, h) ==
    IF ~CheckLocations(p, RightLocations(p), g, w, h) THEN Rejected(p)
    ELSE CommitRotation(p, RightLocations(p))

\* the local_position setter reports position-changed, every block echoes
\* it (Movable.__on_parent_event), then move_delta reports it once more
PolyMoveDelta(p, d, g, w, h) ==
    IF ~CheckLocations(p, DeltaLocations(p, d), g, w, h) THEN Rejected(p)
    ELSE [ok |-> TRUE,
          piece |-> [p EXCEPT !.lp = <<p.lp[1] + d[1], p.lp[2] + d[2]>>],
          events |-> <<Ev(PieceSrc(p), "position-changed")>> \o BlockMoved(p)
                     \o <<Ev(PieceSrc(p), "position-changed")>> \o BlockMoved(p)]


(***************************************************************************)
(* Python list indexing, self.grid[i][j]: an index in -n..-1 counts from   *)
(* the end of the list, an index outside -n..n-1 raises IndexError         *)
(* (IndexError is the value -1 here).                                      *)
(***************************************************************************)
PyIndex(i, n) ==
    IF 0 <= i /\ i < n THEN i
    ELSE IF -n <= i /\ i < 0 THEN n + i
    ELSE -1

(***************************************************************************)
(* Grid.add_polyomino                                                      *)
(***************************************************************************)
\* the events a block reports inside `with b.event:`, where the counter of
\* its dispatcher is c: the position-changed of the local_position setter
\* and the parent-changed of `b.parent = None`
InsideWith(c, id) ==
    Reported(c, <<Ev(BlockSrc(id), "position-changed"),
                             Ev(BlockSrc(id), "parent-changed")>>)

\* a pass of the loop that does not enter the `with` block
AddBlockUnsuppressed(st, i, w, h) ==
    LET p == st.piece
        pos == <<p.lp[1] + p.blocks[i][1], p.lp[2] + p.blocks[i][2]>>
        moved == [p EXCEPT !.blocks[i] = pos]
        x == PyIndex(pos[1], w)
        y == PyIndex(pos[2], h)
        b == [id |-> <<p.ser, i>>, lp |-> pos]
        inside == InsideWith(0, b.id)
    IN  IF x = -1 \/ y = -1
        THEN [st EXCEPT !.piece = moved, !.raised = TRUE, !.bparent[i] = "none",
                        !.events = @ \o inside]
        ELSE [grid |-> [st.grid EXCEPT ![x][y] = <<b>>],
              piece |-> moved,
              raised |-> FALSE,
              bparent |-> [st.bparent EXCEPT ![i] = "grid"],
              events |-> st.events \o inside
                         \o <<Ev(BlockSrc(b.id), "parent-changed"),
                              Ev(GridSrc, "block-added")>>]

\* one pass of the loop over polyomino.blocks, for block i of the piece st.piece
\* (whose parent is None by now, so that its position is its local position)
AddBlock(st, i, w, h) ==
    LET p == st.piece
        \* b.local_position = b.position
        pos == <<p.lp[1] + p.blocks[i][1], p.lp[2] + p.blocks[i][2]>>
        moved == [p EXCEPT !.blocks[i] = pos]
        x == PyIndex(pos[1], w)
        y == PyIndex(pos[2], h)
        b == [id |-> <<p.ser, i>>, lp |-> pos]
        inside == InsideWith(1, b.id)
    IN  IF x = -1 \/ y = -1
        THEN [st EXCEPT !.piece = moved, !.raised = TRUE, !.bparent[i] = "none",
                        !.events = @ \o inside]
        ELSE [grid |-> [st.grid EXCEPT ![x][y] = <<b>>],
              piece |-> moved,
              raised |-> FALSE,
              bparent |-> [st.bparent EXCEPT ![i] = "grid"],
              \* b.parent = self reports parent-changed, then the grid
              \* reports block-added
              events |-> st.events \o inside
                         \o <<Ev(BlockSrc(b.id), "parent-changed"),
                              Ev(GridSrc, "block-added")>>]

RECURSIVE AddBlocks(_, _, _, _)
AddBlocks(st, i, w, h) ==
    IF i > Len(st.piece.blocks) \/ st.raised THEN st
    ELSE AddBlocks(AddBlock(st, i, w, h), i + 1, w, h)

\* bparent is the parent of every block: the piece, None or the grid
AddPolyomino(g, p, w, h) ==
    LET detached == IF p.parent = "grid"
                    THEN [grid |-> g, piece |-> [p EXCEPT !.parent = "none"],
                          raised |-> FALSE,
                          bparent |-> [i \in DOMAIN p.blocks |-> "piece"],
                          events |-> <<Ev(PieceSrc(p), "parent-changed")>>]
                    ELSE [grid |-> g, piece |-> p, raised |-> FALSE,
                          bparent |-> [i \in DOMAIN p.blocks |-> "piece"],
                          events |-> <<>>]
    IN  AddBlocks(detached, 1, w, h)

(***************************************************************************)
(* Grid.clear_rows                                                         *)
(***************************************************************************)
\* the test of row y: no cell of it is None
RowComplete(g, y, w) == \A x \in 0..(w - 1) : g[x][y] # None

\* a block after its local_position setter moved it one row down
Lowered(cell) ==
    IF cell = None THEN None
    ELSE <<[cell[1] EXCEPT !.lp = <<cell[1].lp[1], cell[1].lp[2] + 1>>]>>

\* a shift that moves the references and leaves the local positions alone
ShiftDownStale(g, y, w, h) ==
    [x \in 0..(w - 1) |->
        [r \in 0..(h - 1) |->
            IF r = 0 THEN None
            ELSE IF r <= y THEN g[x][r - 1]
            ELSE g[x][r]]]

\* the loop `for y_p in range(y, 0, -1)` and the clearing of row 0
ShiftDown(g, y, w, h) ==
    [x \in 0..(w - 1) |->
        [r \in 0..(h - 1) |->
            IF r = 0 THEN None
            ELSE IF r <= y THEN Lowered(g[x][r - 1])
            ELSE g[x][r]]]

\* the blocks of row y, in the order of x
RowBlocks(g, y, w) == [k \in 1..w |-> g[k - 1][y][1]]

\* the position-changed events of the shift, in the order of the loops:
\* y_p from y down to 1, x from 0 to width-1
ShiftEvents(g, y, w) ==
    LET cellAt(k) == g[(k - 1) % w][(y - 1) - ((k - 1) \div w)]
        all == [k \in 1..(y * w) |->
                   IF cellAt(k) = None THEN Ev(GridSrc, "none")
                   ELSE Ev(BlockSrc(cellAt(k)[1].id), "position-changed")]
    IN  SelectSeq(all, LAMBDA e : e.name # "none")

RECURSIVE ClearFrom(_, _, _, _)
ClearFrom(st, y, w, h) ==
    IF y >= h THEN st
    ELSE IF RowComplete(st.grid, y, w)
         THEN ClearFrom([grid |-> ShiftDown(st.grid, y, w, h),
                         removed |-> st.removed \o RowBlocks(st.grid, y, w),
                         events |-> st.events \o ShiftEvents(st.grid, y, w)],
                        y + 1, w, h)
         ELSE ClearFrom(st, y + 1, w, h)

ClearRows(g, w, h) ==
    LET st == ClearFrom([grid |-> g, removed |-> <<>>, events |-> <<>>], 0, w, h)
    IN  [grid |-> st.grid,
         removed |-> st.removed,
         events |-> st.events \o
                    [k \in DOMAIN st.removed |-> Ev(GridSrc, "block-removed")]]

(***************************************************************************)
(* MasterTetris                                                            *)
(***************************************************************************)
\* the step sizes the frame loop passes to step, in microseconds
Deltas == {250000, 500000}

\* datetime.timedelta(seconds=0.5 / level) in microseconds: timedelta rounds
\* to the nearest microsecond, a tie to the even one
MinDelta(l) ==
    LET q == 500000 \div l
        r == 500000 % l
    IN  IF 2 * r < l THEN q
        ELSE IF 2 * r > l THEN q + 1
        ELSE IF q % 2 = 0 THEN q ELSE q + 1

\* the session is over once step returned False (GameState.render pops the
\* state then) or raised: nothing calls the game any more
Over == op = "step" /\ result # "True"

\* a command that reports its event whatever the piece operation returned
CommandEventAlways(cmd, call, name) ==
    /\ op' = cmd
    /\ prev' = current_piece
    /\ IF current_piece # None
       THEN /\ current_piece' = <<call.piece>>
            /\ events' = call.events \o <<Ev(GameSrc, name)>>
            /\ result' = IF call.ok THEN "True" ELSE "False"
       ELSE /\ current_piece' = current_piece
            /\ events' = <<>>
            /\ result' = "False"
    /\ UNCHANGED <<width, height, grid, score, lines, level, delta, pieces, removed, hist>>
    /\ UNCHANGED <<chainVars, dispVars, managerVars>>

\* a player command: `call` is the result of the piece operation it delegates
\* to, `name` the event it reports when that succeeded
Command(cmd, call, name) ==
    /\ op' = cmd
    /\ prev' = current_piece
    /\ IF current_piece # None /\ call.ok
       THEN /\ current_piece' = <<call.piece>>
            /\ events' = call.events \o <<Ev(GameSrc, name)>>
            /\ result' = "True"
       ELSE /\ current_piece' = current_piece
            /\ events' = <<>>
            /\ result' = "False"
    /\ UNCHANGED <<width, height, grid, score, lines, level, delta, pieces, removed, hist>>
    /\ UNCHANGED <<chainVars, dispVars, managerVars>>

\* the piece a command acts on (the operand is not used when there is none)
Active == IF current_piece = None THEN NewPolyomino(<<>>, <<0, 0>>, 0) ELSE current_piece[1]

rotate_left ==
    /\ ~Over
    /\ Command("rotate_left", PolyRotateLeft(Active, grid, width, height), "piece-rotated-left")

rotate_right ==
    /\ ~Over
    /\ Command("rotate_right", PolyRotateRight(Active, grid, width, height), "piece-rotated-right")

left ==
    /\ ~Over
    /\ Command("left", PolyMoveDelta(Active, <<-1, 0>>, grid, width, height), "piece-moved")

right ==
    /\ ~Over
    /\ Command("right", PolyMoveDelta(Active, <<1, 0>>, grid, width, height), "piece-moved")

down ==
    /\ ~Over
    /\ Command("down", PolyMoveDelta(Active, <<0, 1>>, grid, width, height), "piece-moved")

\* int(len(cleared) / self.grid.width)
LinesGain(n, w) == n \div w

\* a score that counts the removed blocks once
ScoreGainLinear(n, w) == n

\* int(len(cleared) * (len(cleared) / self.grid.width)): the quotient is a
\* float, exact here because len(cleared) is a multiple of the width
ScoreGain(n, w) == n * (n \div w)

\* a level that rounds lines / 10 to the nearest integer
LevelOfRounded(l) == ((l + 5) \div 10) + 1

\* int(math.floor(self.lines / 10)) + 1
LevelOf(l) == (l \div 10) + 1

\* the part of step after `if not self.down()` when the piece is not new:
\* add_polyomino, current_piece = None, clear_rows, the three counters
Land(p, before) ==
    LET add == AddPolyomino(grid, p, width, height)
        cl == ClearRows(add.grid, width, height)
        n == Len(cl.removed)
    IN  IF add.raised
        THEN /\ grid' = add.grid
             /\ current_piece' = <<add.piece>>
             /\ result' = "IndexError"
             /\ events' = before \o add.events
             /\ UNCHANGED <<score, lines, level, removed>>
        ELSE /\ grid' = cl.grid
             /\ current_piece' = None
             /\ result' = "True"
             /\ removed' = cl.removed
             /\ lines' = lines + LinesGain(n, width)
             /\ score' = score + ScoreGain(n, width)
             /\ level' = LevelOf(lines')
             /\ events' = before \o add.events
                          \o <<Ev(GameSrc, "current-piece-changed")>>
                          \o cl.events
                          \o <<Ev(GameSrc, "lines-changed"), Ev(GameSrc, "score-changed"),
                               Ev(GameSrc, "level-changed")>>

\* a gravity tick with piece p, which is new when this tick spawned it
Tick(p, new) ==
    LET mv == PolyMoveDelta(p, <<0, 1>>, grid, width, height)
        spawned == IF new THEN <<Ev(GameSrc, "current-piece-changed")>> ELSE <<>>
    IN  IF mv.ok
        THEN /\ current_piece' = <<mv.piece>>
             /\ result' = "True"
             /\ events' = spawned \o mv.events \o <<Ev(GameSrc, "piece-moved")>>
             /\ UNCHANGED <<grid, score, lines, level, removed>>
        ELSE IF new
        THEN /\ current_piece' = <<p>>
             /\ result' = "False"
             /\ events' = spawned
             /\ UNCHANGED <<grid, score, lines, level, removed>>
        ELSE Land(p, spawned)

\* MasterTetris.step(delta), on the game
GameStep(d) ==
    /\ prev' = current_piece
    /\ UNCHANGED <<width, height, hist>>
    /\ IF delta + d < MinDelta(level)
       THEN /\ delta' = delta + d
            /\ result' = "True"
            /\ events' = <<>>
            /\ UNCHANGED <<grid, current_piece, score, lines, level, pieces, removed>>
       ELSE /\ delta' = 0
            /\ IF current_piece = None
               THEN /\ pieces < MaxPieces
                    /\ pieces' = pieces + 1
                    /\ \E n \in DOMAIN Templates :
                          Tick(NewPolyomino(Templates[n], <<width \div 2, 0>>, pieces + 1), TRUE)
               ELSE /\ pieces' = pieces
                    /\ Tick(current_piece[1], FALSE)

step(d) ==
    /\ ~Over
    /\ op' = "step"
    /\ GameStep(d)
    /\ UNCHANGED <<chainVars, dispVars, managerVars>>

Init ==
    /\ width = GameWidth
    /\ height = GameHeight
    /\ grid = EmptyGrid(GameWidth, GameHeight)
    /\ current_piece = None
    /\ score = 0
    /\ lines = 0
    /\ level = 1
    /\ delta = 0
    /\ pieces = 0
    /\ op = "init"
    /\ result = "True"
    /\ events = <<>>
    /\ prev = None
    /\ removed = <<>>
    /\ hist = None
    /\ ChainIdle
    /\ ManagerIdle
    /\ DispatcherIdle

Next ==
    \/ \E d \in Deltas : step(d)
    \/ rotate_left
    \/ rotate_right
    \/ left
    \/ right
    \/ down

Spec == Init /\ [][Next]_vars

(***************************************************************************)
(* Properties of the game (specification Spec).                            *)
(***************************************************************************)
\* the cells of piece p when its origin is at `origin`
CellsAt(p, origin) ==
    {<<origin[1] + p.blocks[i][1], origin[2] + p.blocks[i][2]>> : i \in DOMAIN p.blocks}

Cells(p) == CellsAt(p, p.lp)

InGrid(c) == c[1] >= 0 /\ c[1] < width /\ c[2] >= 0 /\ c[2] < height

\* Movable.position of the grid (its parent, the game, has no position) and
\* of a block whose parent is the grid
GridPosition == GridLocal
LandedPosition(b) == <<GridPosition[1] + b.lp[1], GridPosition[2] + b.lp[2]>>

Occupied(g) == {c \in (0..(width - 1)) \X (0..(height - 1)) : g[c[1]][c[2]] # None}

\* C2: after any sequence of spawns, moves and rotations every block of the
\* active piece (a piece whose parent is the grid) has a column in [0, width).
C2_ColumnsInRange ==
    (current_piece # None /\ current_piece[1].parent = "grid")
        => \A c \in Cells(current_piece[1]) : c[1] >= 0 /\ c[1] < width

Merged == AddPolyomino(grid, current_piece[1], width, height).grid
CompleteRows(g) == Cardinality({y \in 0..(height - 1) : RowComplete(g, y, width)})

\* a transition in which step landed the active piece and cleared rows
Landing ==
    /\ op' = "step"
    /\ result' = "True"
    /\ current_piece # None
    /\ current_piece' = None

Commands == {"rotate_left", "rotate_right", "left", "right", "down"}

Delegated(cmd, p) ==
    CASE cmd = "rotate_left" -> PolyRotateLeft(p, grid, width, height)
      [] cmd = "rotate_right" -> PolyRotateRight(p, grid, width, height)
      [] cmd = "left" -> PolyMoveDelta(p, <<-1, 0>>, grid, width, height)
      [] cmd = "right" -> PolyMoveDelta(p, <<1, 0>>, grid, width, height)
      [] cmd = "down" -> PolyMoveDelta(p, <<0, 1>>, grid, width, height)

NamedEvent(cmd) ==
    CASE cmd = "rotate_left" -> Ev(GameSrc, "piece-rotated-left")
      [] cmd = "rotate_right" -> Ev(GameSrc, "piece-rotated-right")
      [] OTHER -> Ev(GameSrc, "piece-moved")

Count(seq, x) == Cardinality({i \in DOMAIN seq : seq[i] = x})

GravityTick == op' = "step" /\ delta' = 0

Merging ==
    /\ GravityTick
    /\ current_piece # None
    /\ ~Delegated("down", current_piece[1]).ok

GridOf(S, w, h) ==
    [x \in 0..(w - 1) |->
        [y \in 0..(h - 1) |->
            IF <<x, y>> \in S
            THEN <<[id |-> <<0, x * h + y + 1>>, lp |-> <<x, y>>]>>
            ELSE None]]

InitRows ==
    /\ width = RowsWidth
    /\ height = RowsHeight
    /\ \E S \in SUBSET ((0..(RowsWidth - 1)) \X (0..(RowsHeight - 1))) :
          grid = GridOf(S, RowsWidth, RowsHeight)
    /\ current_piece = None
    /\ score = 0
    /\ lines = 0
    /\ level = 1
    /\ delta = 0
    /\ pieces = 0
    /\ op = "init"
    /\ result = "True"
    /\ events = <<>>
    /\ prev = None
    /\ removed = <<>>
    /\ hist = None
    /\ ChainIdle
    /\ ManagerIdle
    /\ DispatcherIdle

clear_rows ==
    LET cl == ClearRows(grid, width, height)
    IN  /\ grid' = cl.grid
        /\ removed' = cl.removed
        /\ events' = cl.events
        /\ op' = "clear_rows"
        /\ result' = "list"
        /\ UNCHANGED <<width, height, current_piece, score, lines, level, delta,
                       pieces, prev, hist>>
        /\ UNCHANGED <<chainVars, dispVars, managerVars>>

NextRows == clear_rows

SpecRows == InitRows /\ [][NextRows]_vars

\* the complete rows of grid g, and the identities of the blocks in them
CompleteSet(g) == {y \in 0..(height - 1) : RowComplete(g, y, width)}
IdsIn(g, rows) == {g[c[1]][c[2]][1].id : c \in {d \in Occupied(g) : d[2] \in rows}}

StartRow(b) == (b.id[2] - 1) % height

AllButColumn(c) == {d \in (0..(GameWidth - 1)) \X (0..(GameHeight - 1)) : d[1] # c}

InitLevel ==
    /\ width = GameWidth
    /\ height = GameHeight
    /\ \/ grid = EmptyGrid(GameWidth, GameHeight)
       \/ \E c \in 0..(GameWidth - 1) : grid = GridOf(AllButColumn(c), GameWidth, GameHeight)
    /\ current_piece = None
    /\ lines \in {0} \cup ((MaxLines - 2)..MaxLines)
    /\ score = lines * GameWidth
    /\ level = (lines \div 10) + 1
    /\ delta = 0
    /\ pieces = 1
    /\ op = "init"
    /\ result = "True"
    /\ events = <<>>
    /\ prev = None
    /\ removed = <<>>
    /\ hist = None
    /\ ChainIdle
    /\ ManagerIdle
    /\ DispatcherIdle

SpecLevel == InitLevel /\ [][Next]_vars

MoveDeltas == {<<-1, 0>>, <<1, 0>>, <<0, 1>>, <<0, -1>>}

MoveName(d) ==
    CASE d = <<-1, 0>> -> "move_delta(-1,0)"
      [] d = <<1, 0>> -> "move_delta(1,0)"
      [] d = <<0, 1>> -> "move_delta(0,1)"
      [] d = <<0, -1>> -> "move_delta(0,-1)"

Rotations == {"poly_rotate_left", "poly_rotate_right"}
PieceOps == Rotations \cup {MoveName(d) : d \in MoveDeltas}

\* where the origin of the piece starts: on the grid, one column beside it,
\* or up to height + 1 rows above it
StartPositions(w, h) == ((-1)..w) \X ((-(h + 1))..(h - 1))

InitPiece ==
    /\ width = PieceWidth
    /\ height = PieceHeight
    /\ \E S \in SUBSET ((0..(PieceWidth - 1)) \X (0..(PieceHeight - 1))) :
          grid = GridOf(S, PieceWidth, PieceHeight)
    /\ \E n \in DOMAIN Templates, pos \in StartPositions(PieceWidth, PieceHeight),
          par \in {"grid", "none"} :
          current_piece = <<[NewPolyomino(Templates[n], pos, 1) EXCEPT !.parent = par]>>
    /\ score = 0
    /\ lines = 0
    /\ level = 1
    /\ delta = 0
    /\ pieces = 1
    /\ op = "init"
    /\ result = "True"
    /\ events = <<>>
    /\ prev = None
    /\ removed = <<>>
    /\ hist = None
    /\ ChainIdle
    /\ ManagerIdle
    /\ DispatcherIdle

\* the call `name` of the piece returned `call`
PieceCall(name, call) ==
    /\ op' = name
    /\ result' = IF call.ok THEN "True" ELSE "False"
    /\ current_piece' = <<call.piece>>
    /\ events' = call.events
    /\ prev' = current_piece
    /\ UNCHANGED <<width, height, grid, score, lines, level, delta, pieces, removed>>
    /\ UNCHANGED <<chainVars, dispVars, managerVars>>

First == op = "init"
Second == op \in Rotations /\ result = "True" /\ hist = None
Remember == hist' = IF First THEN None ELSE <<[op |-> op, piece |-> prev[1]]>>

poly_rotate_left ==
    /\ First \/ Second
    /\ Remember
    /\ PieceCall("poly_rotate_left", PolyRotateLeft(current_piece[1], grid, width, height))

poly_rotate_right ==
    /\ First \/ Second
    /\ Remember
    /\ PieceCall("poly_rotate_right", PolyRotateRight(current_piece[1], grid, width, height))

poly_move_delta(d) ==
    /\ First
    /\ Remember
    /\ PieceCall(MoveName(d), PolyMoveDelta(current_piece[1], d, grid, width, height))

NextPiece ==
    \/ poly_rotate_left
    \/ poly_rotate_right
    \/ \E d \in MoveDeltas : poly_move_delta(d)

SpecPiece == InitPiece /\ [][NextPiece]_vars

\* the candidate local offsets of the blocks of p in operation `name`
Candidates(name, p) ==
    IF name = "poly_rotate_left" THEN [i \in DOMAIN p.blocks |-> <<-(p.blocks[i][2]), p.blocks[i][1]>>]
    ELSE IF name = "poly_rotate_right" THEN [i \in DOMAIN p.blocks |-> <<p.blocks[i][2], -(p.blocks[i][1])>>]
    ELSE LET d == CHOOSE e \in MoveDeltas : MoveName(e) = name
         IN  [i \in DOMAIN p.blocks |-> <<p.blocks[i][1] + d[1], p.blocks[i][2] + d[2]>>]

\* the candidate target cells of that operation, relative to the grid
Targets(name, p) ==
    [i \in DOMAIN p.blocks |-> <<p.lp[1] + Candidates(name, p)[i][1],
                                 p.lp[2] + Candidates(name, p)[i][2]>>]

\* a cell the grid does not hold clear: occupied, beside the grid or below it
NotClear(c) ==
    /\ c[2] >= 0
    /\ (c[1] < 0 \/ c[1] >= width \/ c[2] >= height \/ grid[c[1]][c[2]] # None)

InitAdd ==
    /\ width = PieceWidth
    /\ height = PieceHeight
    /\ \E S \in SUBSET ((0..(PieceWidth - 1)) \X (0..(PieceHeight - 1))) :
          grid = GridOf(S, PieceWidth, PieceHeight)
    /\ \E n \in DOMAIN Templates, pos \in StartPositions(PieceWidth, PieceHeight) :
          current_piece = <<NewPolyomino(Templates[n], pos, 1)>>
    /\ score = 0
    /\ lines = 0
    /\ level = 1
    /\ delta = 0
    /\ pieces = 1
    /\ op = "init"
    /\ result = "True"
    /\ events = <<>>
    /\ prev = None
    /\ removed = <<>>
    /\ hist = None
    /\ ChainIdle
    /\ ManagerIdle
    /\ DispatcherIdle

add_polyomino ==
    LET add == AddPolyomino(grid, current_piece[1], width, height)
    IN  /\ op = "init"
        /\ op' = "add_polyomino"
        /\ grid' = add.grid
        /\ current_piece' = <<add.piece>>
        /\ events' = add.events
        /\ result' = IF add.raised THEN "IndexError" ELSE "None"
        /\ hist' = <<add.bparent>>
        /\ prev' = current_piece
        /\ UNCHANGED <<width, height, score, lines, level, delta, pieces, removed>>
        /\ UNCHANGED <<chainVars, dispVars, managerVars>>

NextAdd == add_polyomino

SpecAdd == InitAdd /\ [][NextAdd]_vars

\* the events of a merge of piece p, block after block
RECURSIVE MergeEvents(_, _)
MergeEvents(p, n) ==
    IF n = 0 THEN <<>>
    ELSE MergeEvents(p, n - 1) \o <<Ev(BlockSrc(<<p.ser, n>>), "parent-changed"),
                                    Ev(GridSrc, "block-added")>>

Entities == 1..NumEntities

\* the local offsets assigned
Offsets == {<<0, 0>>, <<1, 0>>, <<-1, 2>>}

\* a position that takes the parent's local position for the parent's position
PositionOneLevel(l, p, e) ==
    TranslatePosition(l[e], IF p[e] \in DOMAIN l THEN l[p[e]] ELSE <<0, 0>>)

\* Movable.position: hasattr(self.parent, 'position') holds of the entities
RECURSIVE Position(_, _, _)
Position(l, p, e) ==
    TranslatePosition(l[e], IF p[e] \in DOMAIN l THEN Position(l, p, p[e]) ELSE <<0, 0>>)

\* e and its ancestors along the parent chain p
RECURSIVE ChainOf(_, _)
ChainOf(p, S) ==
    LET up == S \cup {p[x] : x \in {y \in S \cap DOMAIN p : p[y] \in DOMAIN p}}
    IN  IF up = S THEN S ELSE ChainOf(p, up)

\* the entities in the order they were constructed
EntitySeq == [i \in 1..NumEntities |-> i]

\* the chain as the handlers find it
Chain(l, p) == [l |-> l, p |-> p, sub |-> esub, sup |-> esup]

\* Event(target, name, current=..., last=...), and its delivery by the
\* dispatcher of x
MovedEvent(src, name, last, current) ==
    [src |-> src, name |-> name, last |-> last, current |-> current]
Delivery(x, ev) ==
    [at |-> x, src |-> ev.src, name |-> ev.name, last |-> ev.last, current |-> ev.current]

\* a dispatcher whose handlers do not call the dispatcher of the parent
InvokeAlone(c, x, ev) ==
    IF x \in DOMAIN c.l /\ c.sup[x] > 0 THEN <<>> ELSE <<Delivery(x, ev)>>

\* the dispatcher of x called with ev (x an entity, or -1 for an
\* EventedObject without position and parent): nothing when it is
\* suppressed; else its handlers in the order they were subscribed, first
\* EventedObject.__on_changed of x, which calls the dispatcher of the parent
\* of x, then the Movable.__on_parent_event of the entities subscribed to it
RECURSIVE Invoke(_, _, _)
RECURSIVE EchoAll(_, _, _)
RECURSIVE OnParentEvent(_, _, _)
Invoke(c, x, ev) ==
    IF x \in DOMAIN c.l /\ c.sup[x] > 0 THEN <<>>
    ELSE <<Delivery(x, ev)>>
         \o (IF x \in DOMAIN c.l /\ c.p[x] # 0 THEN Invoke(c, c.p[x], ev) ELSE <<>>)
         \o EchoAll(c, SelectSeq(EntitySeq, LAMBDA e : c.sub[e] = x), ev)

EchoAll(c, es, ev) ==
    IF es = <<>> THEN <<>>
    ELSE OnParentEvent(c, Head(es), ev) \o EchoAll(c, Tail(es), ev)

\* Movable.__on_parent_event of entity e
OnParentEvent(c, e, ev) ==
    IF ev.src = c.p[e] /\ ev.name = "position-changed"
    THEN Invoke(c, e, MovedEvent(e, "position-changed",
                                 TranslatePosition(c.l[e], ev.last),
                                 Position(c.l, c.p, e)))
    ELSE <<>>

\* the local_position setter
SetLocalPosition(e, v) ==
    LET l == Position(elocal, eparent, e)
        moved == [elocal EXCEPT ![e] = v]
    IN  /\ elocal' = moved
        /\ heard' = Invoke(Chain(moved, eparent), e,
                           MovedEvent(e, "position-changed", l, Position(moved, eparent, e)))
        /\ op' = "set_local_position"
        /\ UNCHANGED <<eparent, esub, esup>>

\* the parent setter; it reads self.position after the assignment, which
\* does not return when the chain has become a cycle: no cycle is formed here
SetParent(e, v) ==
    LET l == Position(elocal, eparent, e)
        moved == [eparent EXCEPT ![e] = v]
    IN  /\ e \notin ChainOf(eparent, {v})
        /\ eparent' = moved
        /\ heard' = Invoke(Chain(elocal, moved), e,
                           MovedEvent(e, "parent-changed", l, Position(elocal, moved, e)))
        /\ op' = "set_parent"
        /\ UNCHANGED <<elocal, esub, esup>>

\* the two setters in SpecChain, which follows the positions and not the
\* events
set_local_position(e, v) ==
    /\ elocal' = [elocal EXCEPT ![e] = v]
    /\ op' = "set_local_position"
    /\ UNCHANGED <<eparent, esub, esup, heard, sets, gameVars, dispVars, managerVars>>

set_parent(e, v) ==
    /\ e \notin ChainOf(eparent, {v})
    /\ eparent' = [eparent EXCEPT ![e] = v]
    /\ op' = "set_parent"
    /\ UNCHANGED <<elocal, esub, esup, heard, sets, gameVars, dispVars, managerVars>>

InitChain ==
    /\ width = GameWidth
    /\ height = GameHeight
    /\ grid = EmptyGrid(GameWidth, GameHeight)
    /\ current_piece = None
    /\ score = 0
    /\ lines = 0
    /\ level = 1
    /\ delta = 0
    /\ pieces = 0
    /\ op = "init"
    /\ result = "True"
    /\ events = <<>>
    /\ prev = None
    /\ removed = <<>>
    /\ hist = None
    /\ ChainIdle
    /\ ManagerIdle
    /\ DispatcherIdle

NextChain ==
    \/ \E e \in Entities, v \in Offsets : set_local_position(e, v)
    \/ \E e \in Entities, v \in Entities \cup {0, -1} : set_parent(e, v)

SpecChain == InitChain /\ [][NextChain]_vars

RECURSIVE SumOf(_, _)
SumOf(l, S) ==
    IF S = {} THEN <<0, 0>>
    ELSE LET x == CHOOSE y \in S : TRUE
             rest == SumOf(l, S \ {x})
         IN  <<l[x][1] + rest[1], l[x][2] + rest[2]>>

\* C7: the absolute position of every entity is the component-wise sum of
\* the local offsets of the entity and of all its ancestors along the
\* current parent chain, in every state, hence after every assignment of an
\* offset or a parent anywhere in the chain.
C7_PositionIsChainSum ==
    \A e \in Entities :
        Position(elocal, eparent, e) = SumOf(elocal, ChainOf(eparent, {e}) \cap Entities)

\* C7 witness: a chain of three entities under an object without position,
\* right after an offset was assigned, where the last entity's position
\* differs from what its own offset and its parent's offset give
C7_Witness ==
    /\ op = "set_local_position"
    /\ \E a, b, c \in Entities :
          /\ eparent[c] = b /\ eparent[b] = a /\ eparent[a] = -1
          /\ elocal[a] # <<0, 0>> /\ elocal[b] # <<0, 0>> /\ elocal[c] # <<0, 0>>
          /\ Position(elocal, eparent, c) =
                <<elocal[a][1] + elocal[b][1] + elocal[c][1],
                  elocal[a][2] + elocal[b][2] + elocal[c][2]>>

(***************************************************************************)
(* The events of the setters over a parent chain (specification            *)
(* SpecBubble).  Entity i was constructed with a parent that existed then: *)
(* None, the object -1, or an entity below i; Movable.__init__ subscribed  *)
(* its __on_parent_event to the dispatcher of that parent.                 *)
(***************************************************************************)
InitBubble ==
    /\ width = GameWidth
    /\ height = GameHeight
    /\ grid = EmptyGrid(GameWidth, GameHeight)
    /\ current_piece = None
    /\ score = 0
    /\ lines = 0
    /\ level = 1
    /\ delta = 0
    /\ pieces = 0
    /\ op = "init"
    /\ result = "True"
    /\ events = <<>>
    /\ prev = None
    /\ removed = <<>>
    /\ hist = None
    /\ elocal = [e \in Entities |-> <<0, 0>>]
    /\ eparent \in {p \in [Entities -> Entities \cup {0, -1}] : \A e \in Entities : p[e] < e}
    /\ esub = eparent
    /\ esup = [e \in Entities |-> 0]
    /\ heard = <<>>
    /\ sets = 0
    /\ ManagerIdle
    /\ DispatcherIdle

Counted ==
    /\ sets < MaxSets
    /\ sets' = sets + 1
    /\ UNCHANGED <<gameVars, dispVars, managerVars>>

local_position_setter(e, v) == Counted /\ SetLocalPosition(e, v)

parent_setter(e, v) == Counted /\ SetParent(e, v)

\* `with e.event:` is entered, and left
event_enter(e) ==
    /\ Counted
    /\ esup[e] = 0
    /\ esup' = [esup EXCEPT ![e] = DispatcherEnter(@)]
    /\ heard' = <<>>
    /\ op' = "event_enter"
    /\ UNCHANGED <<elocal, eparent, esub>>

event_exit(e) ==
    /\ Counted
    /\ esup[e] > 0
    /\ esup' = [esup EXCEPT ![e] = DispatcherExit(@)]
    /\ heard' = <<>>
    /\ op' = "event_exit"
    /\ UNCHANGED <<elocal, eparent, esub>>

NextBubble ==
    \/ \E e \in Entities, v \in Offsets : local_position_setter(e, v)
    \/ \E e \in Entities, v \in Entities \cup {0, -1} : parent_setter(e, v)
    \/ \E e \in Entities : event_enter(e)
    \/ \E e \in Entities : event_exit(e)

SpecBubble == InitBubble /\ [][NextBubble]_vars

\* the dispatcher of x delivered a position-changed of x itself
Emitted(h, x) ==
    \E k \in DOMAIN h : h[k].at = x /\ h[k].src = x /\ h[k].name = "position-changed"

\* C19: whenever the current parent of an entity emits position-changed,
\* the entity (its dispatcher not suppressed) re-emits its own
\* position-changed with its previous and its new absolute position; and an
\* entity re-emits only when its current parent emitted, not when a former
\* parent did.
C19_FollowsCurrentParent ==
    [][op' = "set_local_position" =>
          \A e \in Entities :
             /\ (eparent'[e] \in Entities /\ Emitted(heard', eparent'[e]) /\ esup'[e] = 0) =>
                   \E k \in DOMAIN heard' :
                      heard'[k] = Delivery(e, MovedEvent(e, "position-changed",
                                                         Position(elocal, eparent, e),
                                                         Position(elocal', eparent', e)))
             /\ (Emitted(heard', e) /\ heard'[1].src # e) =>
                   (eparent'[e] \in Entities /\ Emitted(heard', eparent'[e]))]_vars

\* C20: an event delivered by the dispatcher of an entity is delivered
\* next, with the same source and name, by the dispatcher of the entity's
\* current parent, hence by those of all its ancestors in turn, the nearest
\* first, up to the root; it is not when that dispatcher is suppressed, and
\* then it goes no further.
C20_Bubbling ==
    \A k \in DOMAIN heard :
        LET x == heard[k].at
            a == IF x \in Entities THEN eparent[x] ELSE 0
        IN  a # 0 =>
               IF a \in Entities /\ esup[a] > 0
               THEN ~(k + 1 \in DOMAIN heard /\ heard[k + 1].at \in ChainOf(eparent, {a}) \cup {-1}
                                             /\ heard[k + 1].src = heard[k].src)
               ELSE /\ k + 1 \in DOMAIN heard
                    /\ heard[k + 1] = [heard[k] EXCEPT !.at = a]

\* C20 witness: an entity whose parent and grandparent are entities under
\* the object -1 set its local position, and the event was delivered by the
\* four dispatchers in turn
C20_Witness ==
    /\ op = "set_local_position"
    /\ Len(heard) >= 4
    /\ \E c, b, a \in Entities :
          /\ eparent[c] = b /\ eparent[b] = a /\ eparent[a] = -1
          /\ heard[1].src = c /\ heard[1].at = c
          /\ heard[2] = [heard[1] EXCEPT !.at = b]
          /\ heard[3] = [heard[1] EXCEPT !.at = a]
          /\ heard[4] = [heard[1] EXCEPT !.at = -1]
          /\ heard[1].last # heard[1].current

(***************************************************************************)
(* EventDispatcher (specification SpecDispatcher): events are invoked on   *)
(* one dispatcher while `with` blocks on it are opened and closed.         *)
(***************************************************************************)
\* EventDispatcher.__iadd__ and __isub__ on the list of handlers;
\* list.remove raises ValueError when the handler is not in the list
Subscribe(hs, h) ==
    IF \E i \in DOMAIN hs : hs[i] = h THEN hs ELSE Append(hs, h)

Unsubscribe(hs, h) ==
    IF \E i \in DOMAIN hs : hs[i] = h
    THEN LET k == CHOOSE i \in DOMAIN hs : hs[i] = h /\ \A j \in 1..(i - 1) : hs[j] # h
         IN  [handlers |-> SubSeq(hs, 1, k - 1) \o SubSeq(hs, k + 1, Len(hs)), raised |-> FALSE]
    ELSE [handlers |-> hs, raised |-> TRUE]

\* what a handler does to the dispatcher that calls it: "h1", "h2", "h3"
\* leave it alone, "sub_h3" subscribes h3 to it, "unsub_h1" and "unsub_h2"
\* unsubscribe h1 and h2 from it
HandlerBody(h, hs) ==
    CASE h = "sub_h3" -> [handlers |-> Subscribe(hs, "h3"), raised |-> FALSE]
      [] h = "unsub_h1" -> Unsubscribe(hs, "h1")
      [] h = "unsub_h2" -> Unsubscribe(hs, "h2")
      [] OTHER -> [handlers |-> hs, raised |-> FALSE]

\* `for h in self.__handlers: h(e)`: the list iterator holds an index into
\* the list itself, so the loop sees what the handlers do to the list; an
\* exception of a handler ends the loop
RECURSIVE CallLoop(_, _, _)
CallLoop(st, i, e) ==
    IF i > Len(st.handlers) \/ st.raised THEN st
    ELSE LET h == st.handlers[i]
             body == HandlerBody(h, st.handlers)
         IN  CallLoop([handlers |-> body.handlers,
                       calls |-> Append(st.calls, <<h, e>>),
                       raised |-> body.raised], i + 1, e)

\* EventDispatcher.__call__: the handler calls it makes for event e, the
\* list of handlers it leaves, and whether it raised
DispatcherRun(c, hs, e) ==
    IF c > 0 THEN [handlers |-> hs, calls |-> <<>>, raised |-> FALSE]
    ELSE CallLoop([handlers |-> hs, calls |-> <<>>, raised |-> FALSE], 1, e)

DispatcherCall(c, hs, e) == DispatcherRun(c, hs, e).calls

RECURSIVE ExitTimes(_, _)
ExitTimes(c, n) == IF n = 0 THEN c ELSE ExitTimes(DispatcherExit(c), n - 1)

dispatcher_call ==
    /\ invoked < MaxEvents
    /\ invoked' = invoked + 1
    /\ depths' = Append(depths, scopes)
    /\ delivered' = delivered \o DispatcherCall(supress_count, handlers, invoked + 1)
    /\ handlers' = DispatcherRun(supress_count, handlers, invoked + 1).handlers
    /\ op' = "dispatcher_call"
    /\ UNCHANGED <<supress_count, scopes, gameVars, chainVars, managerVars>>

\* `with dispatcher:` is entered
dispatcher_enter ==
    /\ scopes < MaxScopes
    /\ scopes' = scopes + 1
    /\ supress_count' = DispatcherEnter(supress_count)
    /\ op' = "dispatcher_enter"
    /\ UNCHANGED <<handlers, invoked, delivered, depths, gameVars, chainVars, managerVars>>

\* the body of the innermost `with` block ends
dispatcher_exit ==
    /\ scopes > 0
    /\ scopes' = scopes - 1
    /\ supress_count' = DispatcherExit(supress_count)
    /\ op' = "dispatcher_exit"
    /\ UNCHANGED <<handlers, invoked, delivered, depths, gameVars, chainVars, managerVars>>

\* the body of the innermost `with` block raises, and the exception leaves
\* n of the open blocks before it is caught: __exit__ runs for each of them
dispatcher_exit_error(n) ==
    /\ n <= scopes
    /\ scopes' = scopes - n
    /\ supress_count' = ExitTimes(supress_count, n)
    /\ op' = "dispatcher_exit_error"
    /\ UNCHANGED <<handlers, invoked, delivered, depths, gameVars, chainVars, managerVars>>

NextDispatcher ==
    \/ dispatcher_call
    \/ dispatcher_enter
    \/ dispatcher_exit
    \/ \E n \in 1..MaxScopes : dispatcher_exit_error(n)

InitDispatcher == InitChain

SpecDispatcher == InitDispatcher /\ [][NextDispatcher]_vars

\* the handler calls made for event e
CallsFor(e) == SelectSeq(delivered, LAMBDA c : c[2] = e)

\* C10: an event is delivered to the handlers exactly when no suppression
\* scope was open at the time it was invoked; an event invoked inside a
\* scope, nested or not, is delivered at no later time either; the counter
\* equals the number of open scopes after every exit, by an error too, and
\* is never negative.
C10_Suppression ==
    /\ supress_count = scopes
    /\ supress_count >= 0
    /\ \A e \in 1..invoked :
          CallsFor(e) = IF depths[e] = 0
                        THEN [i \in DOMAIN handlers |-> <<handlers[i], e>>]
                        ELSE <<>>

\* C10 witness: an exception has just closed every open scope; before, one
\* event was delivered outside any scope and one was dropped inside two
\* nested scopes, and it has not been delivered since
C10_Witness ==
    /\ op = "dispatcher_exit_error"
    /\ scopes = 0
    /\ supress_count = 0
    /\ \E e, f \in 1..invoked :
          /\ depths[e] = 0 /\ CallsFor(e) # <<>>
          /\ depths[f] = 2 /\ CallsFor(f) = <<>> /\ e < f

(***************************************************************************)
(* EventDispatcher with handlers that subscribe and unsubscribe handlers   *)
(* on the dispatcher that is calling them (specification SpecInvoke).      *)
(* Here `delivered` holds the handler calls of the last invoke only.       *)
(***************************************************************************)
HandlerNames == {"h1", "h2", "h3", "sub_h3", "unsub_h1", "unsub_h2"}

\* the lists of at most n distinct handlers: __iadd__ never adds a handler twice
HandlerLists(n) ==
    {l \in UNION {[1..k -> HandlerNames] : k \in 0..n} :
        \A i, j \in DOMAIN l : i # j => l[i] # l[j]}

InitInvoke ==
    /\ width = GameWidth
    /\ height = GameHeight
    /\ grid = EmptyGrid(GameWidth, GameHeight)
    /\ current_piece = None
    /\ score = 0
    /\ lines = 0
    /\ level = 1
    /\ delta = 0
    /\ pieces = 0
    /\ op = "init"
    /\ result = "True"
    /\ events = <<>>
    /\ prev = None
    /\ removed = <<>>
    /\ hist = None
    /\ ChainIdle
    /\ ManagerIdle
    /\ supress_count = 0
    /\ handlers \in HandlerLists(MaxHandlers)
    /\ scopes = 0
    /\ invoked = 0
    /\ delivered = <<>>
    /\ depths = <<>>

\* dispatcher(e), the dispatcher not suppressed
invoke ==
    LET run == DispatcherRun(supress_count, handlers, invoked + 1)
    IN  /\ invoked < MaxEvents
        /\ invoked' = invoked + 1
        /\ delivered' = run.calls
        /\ handlers' = run.handlers
        /\ result' = IF run.raised THEN "ValueError" ELSE "None"
        /\ op' = "invoke"
        /\ UNCHANGED <<supress_count, scopes, depths, chainVars, managerVars>>
        /\ UNCHANGED <<width, height, grid, current_piece, score, lines, level,
                       delta, pieces, events, prev, removed, hist>>

NextInvoke == invoke

SpecInvoke == InitInvoke /\ [][NextInvoke]_vars

\* C11: an invoke calls exactly the handlers that were subscribed when it
\* began, each once and in subscription order, whatever the handlers
\* subscribe or unsubscribe on the dispatcher meanwhile.
C11_SnapshotDelivery ==
    [][op' = "invoke" =>
          delivered' = [i \in DOMAIN handlers |-> <<handlers[i], invoked'>>]]_vars

(***************************************************************************)
(* StateManager (specification SpecManager).  A State object is a record   *)
(* of its class and a serial number; its init, enter and exit are the      *)
(* ones of the State classes of states.py, which do not call the manager,  *)
(* and are recorded in `trace` as they are called.                         *)
(***************************************************************************)
StateClasses == {"LoadState", "MainMenuState", "NewGameMenuState",
                 "HighScoresState", "GameState", "PausedState"}

NewState(class, ser) == [class |-> class, ser |-> ser]

\* an entry of the trace: state.call(), or call on the manager's own list
\* or dispatcher when `who` is the manager
Did(who, call) == [who |-> who, call |-> call]
Manager == [class |-> "StateManager", ser |-> 0]

\* StateManager.active_state: <<the top of the stack>>, or None
ActiveState(st) == IF Len(st) > 0 THEN <<st[Len(st)]>> ELSE None

\* NewGameMenuState.init raises when the manager has no block types; the
\* init of every other class returns
InitRaises(state, d) ==
    state.class = "NewGameMenuState" /\ (d = None \/ d = <<0>>)

\* a push that does not exit the active state
PushStateNoExit(m, state) ==
    IF InitRaises(state, m.data)
    THEN [m EXCEPT !.trace = @ \o <<Did(state, "init")>>, !.raised = TRUE]
    ELSE [m EXCEPT !.states = Append(@, state),
                   !.trace = @ \o <<Did(state, "init"), Did(state, "enter"),
                                    Did(state, "append")>>]

\* StateManager.push_state
PushState(m, state) ==
    LET exited == IF ActiveState(m.states) # None
                  THEN <<Did(ActiveState(m.states)[1], "exit")>>
                  ELSE <<>>
    IN  IF InitRaises(state, m.data)
        THEN [m EXCEPT !.trace = @ \o exited \o <<Did(state, "init")>>,
                       !.raised = TRUE]
        ELSE [m EXCEPT !.states = Append(@, state),
                       !.trace = @ \o exited
                                   \o <<Did(state, "init"), Did(state, "enter"),
                                        Did(state, "append")>>]

\* a pop that calls the dispatcher `empty` whatever is left on the stack
PopStateEmptyAlways(m) ==
    LET popped == IF ActiveState(m.states) # None
                  THEN [m EXCEPT !.states = SubSeq(@, 1, Len(@) - 1),
                                 !.trace = @ \o <<Did(ActiveState(m.states)[1], "exit"),
                                                  Did(ActiveState(m.states)[1], "pop")>>]
                  ELSE m
    IN  [popped EXCEPT !.trace = @ \o <<Did(Manager, "empty")>>]

\* StateManager.pop_state
PopState(m) ==
    LET popped == IF ActiveState(m.states) # None
                  THEN [m EXCEPT !.states = SubSeq(@, 1, Len(@) - 1),
                                 !.trace = @ \o <<Did(ActiveState(m.states)[1], "exit"),
                                                  Did(ActiveState(m.states)[1], "pop")>>]
                  ELSE m
    IN  IF ActiveState(popped.states) # None
        THEN [popped EXCEPT !.trace = @ \o <<Did(ActiveState(popped.states)[1], "enter")>>]
        ELSE [popped EXCEPT !.trace = @ \o <<Did(Manager, "empty")>>]

\* a replace that pushes onto the state it should replace
ReplaceStateKeep(m, state) == PushState(m, state)

\* StateManager.replace_state
ReplaceState(m, state) ==
    IF ActiveState(m.states) = None THEN PushState(m, state)
    ELSE PushState([m EXCEPT !.states = SubSeq(@, 1, Len(@) - 1),
                             !.trace = @ \o <<Did(ActiveState(m.states)[1], "exit"),
                                              Did(ActiveState(m.states)[1], "pop")>>],
                   state)

\* the manager as an operation finds it
ManagerNow == [states |-> states, trace |-> <<>>, data |-> data, raised |-> FALSE]

\* the states that are entered after the calls of t, S being entered before
RECURSIVE EnteredAfter(_, _)
EnteredAfter(S, t) ==
    IF t = <<>> THEN S
    ELSE EnteredAfter(IF Head(t).call = "enter" THEN S \cup {Head(t).who}
                      ELSE IF Head(t).call = "exit" THEN S \ {Head(t).who}
                      ELSE S,
                      Tail(t))

\* LoadState.init: the states whose loading thread the calls of t started
Started(t) == {t[i].who.ser : i \in {j \in DOMAIN t : /\ t[j].call = "init"
                                                      /\ t[j].who.class = "LoadState"}}

\* the manager and its states after an operation that left the manager as m
ManagerBecomes(m) ==
    /\ states' = m.states
    /\ trace' = m.trace
    /\ data' = m.data
    /\ raised' = m.raised
    /\ entered' = EnteredAfter(entered, m.trace)
    /\ worker' = [s \in DOMAIN worker |->
                     IF s \in Started(m.trace) THEN "alive" ELSE worker[s]]

\* StateManager(initial_state): the data are empty, and the constructor
\* returns when the init of the initial state does
InitManager ==
    /\ width = GameWidth
    /\ height = GameHeight
    /\ grid = EmptyGrid(GameWidth, GameHeight)
    /\ current_piece = None
    /\ score = 0
    /\ lines = 0
    /\ level = 1
    /\ delta = 0
    /\ pieces = 0
    /\ op = "init"
    /\ result = "True"
    /\ events = <<>>
    /\ prev = None
    /\ removed = <<>>
    /\ hist = None
    /\ ChainIdle
    /\ DispatcherIdle
    /\ \E c \in StateClasses :
          LET m == PushState([states |-> <<>>, trace |-> <<>>, data |-> None,
                              raised |-> FALSE], NewState(c, 1))
          IN  /\ ~m.raised
              /\ states = m.states
              /\ trace = m.trace
              /\ arg = <<NewState(c, 1)>>
              /\ entered = EnteredAfter({}, m.trace)
              /\ worker = [s \in 1..MaxObjects |->
                              IF s \in Started(m.trace) THEN "alive" ELSE "none"]
    /\ data = None
    /\ raised = FALSE
    /\ created = 1
    /\ joining = FALSE
    /\ selected = [s \in 1..MaxObjects |-> 0]
    /\ key = 0

ManagerDoes(name, m, a) ==
    /\ op' = name
    /\ arg' = a
    /\ ManagerBecomes(m)
    /\ UNCHANGED <<joining, selected, key>>
    /\ UNCHANGED <<gameVars, chainVars, dispVars>>

push_state(c) ==
    /\ created < MaxStates
    /\ created' = created + 1
    /\ ManagerDoes("push_state", PushState(ManagerNow, NewState(c, created + 1)),
                   <<NewState(c, created + 1)>>)

pop_state ==
    /\ created' = created
    /\ ManagerDoes("pop_state", PopState(ManagerNow), None)

replace_state(c) ==
    /\ created < MaxStates
    /\ created' = created + 1
    /\ ManagerDoes("replace_state", ReplaceState(ManagerNow, NewState(c, created + 1)),
                   <<NewState(c, created + 1)>>)

\* LoadState.__load, on the loading thread of the state of serial number s:
\* it stores n block types in the data of the manager; it ends after that,
\* or before it when it raises
BlockTypes == {0, 2}

worker_store(s, n) ==
    /\ worker[s] = "alive"
    /\ worker' = [worker EXCEPT ![s] = "stored"]
    /\ data' = <<n>>
    /\ op' = "worker_store"
    /\ UNCHANGED <<states, trace, arg, created, raised, entered, joining, selected, key>>
    /\ UNCHANGED <<gameVars, chainVars, dispVars>>

worker_exit(s) ==
    /\ worker[s] \in {"alive", "stored"}
    /\ worker' = [worker EXCEPT ![s] = "dead"]
    /\ op' = "worker_exit"
    /\ UNCHANGED <<states, trace, arg, created, data, raised, entered, joining,
                   selected, key>>
    /\ UNCHANGED <<gameVars, chainVars, dispVars>>

NextManager ==
    \/ \E c \in StateClasses : push_state(c)
    \/ pop_state
    \/ \E c \in StateClasses : replace_state(c)
    \/ \E s \in 1..MaxObjects, n \in BlockTypes : worker_store(s, n)
    \/ \E s \in 1..MaxObjects : worker_exit(s)

SpecManager == InitManager /\ [][NextManager]_vars

\* the calls of the trace t made on state s, and the places of a call in t
CallsOn(t, s) == SelectSeq(t, LAMBDA d : d.who = s)
Places(t, d) == {i \in DOMAIN t : t[i] = d}

C13_PopLast ==
    [][op' = "pop_state" =>
          /\ Len(states) = 1 =>
                /\ trace' = <<Did(states[1], "exit"), Did(states[1], "pop"),
                              Did(Manager, "empty")>>
                /\ states' = <<>>
          /\ states' # <<>> => Places(trace', Did(Manager, "empty")) = {}]_vars

\* C13 witness: the last state of a stack that held two was popped
C13_Witness ==
    /\ op = "pop_state"
    /\ states = <<>>
    /\ created >= 2
    /\ Cardinality(Places(trace, Did(Manager, "empty"))) = 1
    /\ Len(trace) = 3

ManagerOps == {"push_state", "pop_state", "replace_state"}

\* C21: when the init of the state raises in push_state or replace_state,
\* the state is not on the stack, the stack is the one before the call, and
\* the top of before, if it was entered, still is.
C21_FailedInitAbandons ==
    [][(op' \in {"push_state", "replace_state"} /\ raised') =>
          /\ \A i \in DOMAIN states' : states'[i] # arg'[1]
          /\ states' = states
          /\ (states # <<>> /\ states[Len(states)] \in entered)
                => states[Len(states)] \in entered']_vars

\* whether the calls of enter() and exit() in t alternate on every state,
\* S being the states that are entered before t
RECURSIVE Alternate(_, _)
Alternate(S, t) ==
    IF t = <<>> THEN TRUE
    ELSE /\ Head(t).call = "enter" => Head(t).who \notin S
         /\ Head(t).call = "exit" => Head(t).who \in S
         /\ Alternate(EnteredAfter(S, <<Head(t)>>), Tail(t))

\* C24: over any sequence of push_state, pop_state and replace_state the
\* calls of enter() and exit() on every state alternate, beginning with
\* enter() after init(): exit() is not called on a state that is not
\* entered; and the only entered state is the top of the stack.
C24_EnterExitAlternate ==
    /\ [][op' \in ManagerOps => Alternate(entered, trace')]_vars
    /\ [](entered = (IF states = <<>> THEN {} ELSE {states[Len(states)]}))

(***************************************************************************)
(* The states of states.py under a frame loop (specification SpecStates):  *)
(* a StateManager made with a LoadState, whose input(char) and render(...) *)
(* are called in any order, while the loading thread runs.  An exception   *)
(* that leaves input or render ends the loop.  The game of a GameState is  *)
(* the game of Spec, with the same templates for every block type.         *)
(***************************************************************************)
\* the characters the states test for: 27, 10, 32 and the keys of curses
Escape == 27
Enter == 10
Space == 32
KEY_DOWN == 258
KEY_UP == 259
KEY_LEFT == 260
KEY_RIGHT == 261

\* the characters of the inputs: every state but PausedState has one among
\* them that it does not test for
Keys == {Escape, Enter, Space, KEY_DOWN, KEY_UP, KEY_LEFT, KEY_RIGHT}

\* a dispatch that reaches the GameState of the stack when there is one
DispatchedGame(st) ==
    IF \E i \in DOMAIN st : st[i].class = "GameState"
    THEN <<st[CHOOSE i \in DOMAIN st : st[i].class = "GameState"]>>
    ELSE ActiveState(st)

\* StateManager.input and StateManager.render: the state they call
Dispatched(st) == ActiveState(st)

TopClass == IF Dispatched(states) = None THEN "none" ELSE Dispatched(states)[1].class
Top == Dispatched(states)[1]

\* the frame loop runs: no exception has left it, and it is not in join()
Running == ~raised /\ result # "IndexError" /\ ~joining

\* a render of LoadState that does not look at the thread
LoadRenderAlways(m, alive, new) == ReplaceState(m, new)

\* LoadState.render
LoadRender(m, alive, new) == IF ~alive THEN ReplaceState(m, new) ELSE m

\* loading_thread.is_alive()
IsAlive(s) == worker[s] \in {"alive", "stored"}

\* PausedState.input
PausedInput(m, k) == PopState(m)

\* MainMenuState.input: the manager and `selected` after it; made is the
\* number of State objects it made
MainMenuInput(m, k, sel, ser) ==
    IF k = Escape THEN [m |-> PopState(m), sel |-> sel, made |-> 0]
    ELSE IF k = KEY_UP /\ sel > 0 THEN [m |-> m, sel |-> sel - 1, made |-> 0]
    ELSE IF k = KEY_DOWN /\ sel < 2 THEN [m |-> m, sel |-> sel + 1, made |-> 0]
    ELSE IF k = Enter
         THEN IF sel = 0
              THEN [m |-> PushState(m, NewState("NewGameMenuState", ser)),
                    sel |-> sel, made |-> 1]
              ELSE IF sel = 1
              THEN [m |-> PushState(m, NewState("HighScoresState", ser)),
                    sel |-> sel, made |-> 1]
              ELSE [m |-> PopState(m), sel |-> sel, made |-> 0]
         ELSE [m |-> m, sel |-> sel, made |-> 0]

\* NewGameMenuState.input
NewGameMenuInput(m, k, sel, ser) ==
    IF k = KEY_UP /\ sel > 0 THEN [m |-> m, sel |-> sel - 1, made |-> 0]
    ELSE IF k = KEY_DOWN /\ sel < m.data[1] - 1 THEN [m |-> m, sel |-> sel + 1, made |-> 0]
    ELSE IF k = Enter
         THEN [m |-> ReplaceState(m, NewState("GameState", ser)), sel |-> sel, made |-> 1]
         ELSE [m |-> m, sel |-> sel, made |-> 0]

\* GameState.__init__: Tetris((35, 1), blocks)
GameMade ==
    /\ width' = GameWidth
    /\ height' = GameHeight
    /\ grid' = EmptyGrid(GameWidth, GameHeight)
    /\ current_piece' = None
    /\ score' = 0
    /\ lines' = 0
    /\ level' = 1
    /\ delta' = 0
    /\ pieces' = 0
    /\ result' = "True"
    /\ events' = <<>>
    /\ prev' = None
    /\ removed' = <<>>
    /\ hist' = None

\* StateManager(LoadState())
InitStates ==
    /\ InitManager
    /\ states[1].class = "LoadState"

\* an input or a render that leaves the manager as m and the fields
\* `selected` as sel
Frame(name, k, m, made, sel) ==
    /\ op' = name
    /\ selected' = [s \in DOMAIN selected |->
                       IF \E i \in DOMAIN m.states : m.states[i].ser = s
                       THEN sel[s] ELSE 0]
    /\ key' = k
    /\ arg' = None
    /\ created' = created + made
    /\ ManagerBecomes(m)
    /\ joining' = FALSE
    /\ UNCHANGED <<chainVars, dispVars>>

\* LoadState.input: join() returns when the thread has ended
load_input(k) ==
    /\ Running /\ TopClass = "LoadState"
    /\ UNCHANGED gameVars
    /\ IF k = Escape
       THEN IF IsAlive(Top.ser)
            THEN /\ op' = "input"
                 /\ key' = k
                 /\ arg' = None
                 /\ trace' = <<Did(Top, "join")>>
                 /\ joining' = TRUE
                 /\ UNCHANGED <<states, created, data, raised, entered, worker, selected>>
                 /\ UNCHANGED <<chainVars, dispVars>>
            ELSE Frame("input", k,
                       PopState([ManagerNow EXCEPT !.trace = <<Did(Top, "join")>>]), 0, selected)
       ELSE Frame("input", k, ManagerNow, 0, selected)

\* the rest of LoadState.input, when join() returns
load_joined ==
    /\ joining /\ ~IsAlive(Top.ser)
    /\ UNCHANGED gameVars
    /\ Frame("input", key, PopState([ManagerNow EXCEPT !.trace = trace]), 0, selected)

load_render ==
    /\ Running /\ TopClass = "LoadState" /\ created < MaxObjects
    /\ UNCHANGED gameVars
    /\ LET m == LoadRender(ManagerNow, IsAlive(Top.ser),
                           NewState("MainMenuState", created + 1))
       IN  Frame("render", 0, m, IF IsAlive(Top.ser) THEN 0 ELSE 1, selected)

main_menu_input(k) ==
    /\ Running /\ TopClass = "MainMenuState"
    /\ LET r == MainMenuInput(ManagerNow, k, selected[Top.ser], created + 1)
       IN  /\ created + r.made <= MaxObjects
           /\ Frame("input", k, r.m, r.made, [selected EXCEPT ![Top.ser] = r.sel])
    /\ UNCHANGED gameVars

new_game_menu_input(k) ==
    /\ Running /\ TopClass = "NewGameMenuState"
    /\ LET r == NewGameMenuInput(ManagerNow, k, selected[Top.ser], created + 1)
       IN  /\ created + r.made <= MaxObjects
           /\ Frame("input", k, r.m, r.made, [selected EXCEPT ![Top.ser] = r.sel])
           /\ IF r.made = 1 THEN GameMade ELSE UNCHANGED gameVars

\* HighScoresState.input, and input without an active state
idle_input(k) ==
    /\ Running /\ TopClass \in {"HighScoresState", "none"}
    /\ UNCHANGED gameVars
    /\ Frame("input", k, ManagerNow, 0, selected)

\* the render of MainMenuState, NewGameMenuState and PausedState, which
\* draw, and render without an active state
idle_render ==
    /\ Running /\ TopClass \in {"MainMenuState", "NewGameMenuState", "PausedState", "none"}
    /\ UNCHANGED gameVars
    /\ Frame("render", 0, ManagerNow, 0, selected)

high_scores_render ==
    /\ Running /\ TopClass = "HighScoresState"
    /\ UNCHANGED gameVars
    /\ Frame("render", 0, PopState(ManagerNow), 0, selected)

\* GameState.input for the characters that are not passed to the game.
\* Nothing refers to the game of a state that left the stack on Escape: the
\* variables of the game then go back to those of a new game.
game_input(k) ==
    /\ Running /\ TopClass = "GameState"
    /\ k \notin {KEY_UP, KEY_LEFT, KEY_RIGHT, KEY_DOWN}
    /\ IF k = Escape
       THEN /\ Frame("input", k, PopState(ManagerNow), 0, selected)
            /\ GameMade
       ELSE IF k = Space
       THEN /\ created < MaxObjects
            /\ Frame("input", k, PushState(ManagerNow, NewState("PausedState", created + 1)),
                     1, selected)
            /\ UNCHANGED gameVars
       ELSE /\ Frame("input", k, ManagerNow, 0, selected)
            /\ UNCHANGED gameVars

\* GameState.input for KEY_UP, KEY_LEFT, KEY_RIGHT and KEY_DOWN
game_command ==
    /\ Running /\ TopClass = "GameState"
    /\ \/ rotate_left
       \/ left
       \/ right
       \/ down

\* GameState.render: step, and pop_state when it returned False
game_render(d) ==
    /\ Running /\ TopClass = "GameState"
    /\ pieces < MaxGamePieces \/ current_piece # None \/ delta + d < MinDelta(level)
    /\ GameStep(d)
    /\ IF result' = "False" THEN Frame("render", 0, PopState(ManagerNow), 0, selected)
       ELSE Frame("render", 0, ManagerNow, 0, selected)

paused_input(k) ==
    /\ Running /\ TopClass = "PausedState"
    /\ UNCHANGED gameVars
    /\ Frame("input", k, PausedInput(ManagerNow, k), 0, selected)

NextStates ==
    \/ \E k \in Keys : load_input(k)
    \/ load_joined
    \/ load_render
    \/ \E k \in Keys : main_menu_input(k)
    \/ \E k \in Keys : new_game_menu_input(k)
    \/ \E k \in Keys : idle_input(k)
    \/ idle_render
    \/ high_scores_render
    \/ \E k \in Keys : game_input(k)
    \/ game_command
    \/ \E d \in Deltas : game_render(d)
    \/ \E k \in Keys : paused_input(k)
    \/ \E s \in 1..MaxObjects, n \in BlockTypes : worker_store(s, n)
    \/ \E s \in 1..MaxObjects : worker_exit(s)

SpecStates == InitStates /\ [][NextStates]_vars

\* the class of the top of the stack is c
OnTop(c) == states # <<>> /\ states[Len(states)].class = c
OnStack(st, c) == \E i \in DOMAIN st : st[i].class = c
Joins(t) == {i \in DOMAIN t : t[i].call = "join"}

\* C22: LoadState replaces itself with MainMenuState in the first render
\* made after its thread has ended and in no render before that;
\* MainMenuState is not on the stack while a loading thread runs; the thread
\* is joined only by the input of Escape to LoadState, before the state is
\* popped.
C22_LoadReplacesWhenDone ==
    /\ [](OnStack(states, "MainMenuState")
             => \A s \in DOMAIN worker : worker[s] \in {"none", "dead"})
    /\ [][/\ (op' = "render" /\ OnTop("LoadState")) =>
                 IF worker[states[Len(states)].ser] = "dead"
                 THEN /\ Len(states') = Len(states)
                      /\ ~OnStack(states', "LoadState")
                      /\ states'[Len(states')].class = "MainMenuState"
                 ELSE states' = states
          /\ (OnStack(states', "MainMenuState") /\ ~OnStack(states, "MainMenuState"))
                 => (op' = "render" /\ OnTop("LoadState"))
          /\ (Joins(trace') # {} /\ trace' # trace) =>
                 /\ op' = "input" /\ key' = Escape /\ OnTop("LoadState")
                 /\ trace'[1] = Did(states[Len(states)], "join")
                 /\ \A i \in DOMAIN trace' :
                       trace'[i].call = "pop" => i > 1 /\ worker'[states[Len(states)].ser] = "dead"
          /\ (op' = "input" /\ ~OnTop("LoadState") /\ trace' # trace) => Joins(trace') = {}
          /\ op' = "render" => Joins(trace') = {}]_vars

\* C22 witness: the render that found the thread ended, after the thread
\* stored the block types, put MainMenuState in the place of LoadState
C22_Witness ==
    /\ op = "render"
    /\ Len(states) = 1
    /\ states[1].class = "MainMenuState"
    /\ worker[1] = "dead"
    /\ data = <<2>>
    /\ trace[1] = Did(NewState("LoadState", 1), "exit")

=============================================================================
